---- MODULE Spec2Model ----
(***************************************************************************)
(* The staking contract of src/staking/lib.rs: the per-account ledger of   *)
(* stake entries (staked) and withdrawn amounts (unstaked), the unlock     *)
(* curve get_unstakable, the balance query get_balance and the messages    *)
(* stake, claim and claim_all, together with the ERC-20 token the contract *)
(* calls and the block number of the host environment.                     *)
(*                                                                         *)
(* Every message is one action: an ink! message runs to completion, and a  *)
(* panic (unwrap on None, index out of range, checked arithmetic) reverts  *)
(* the whole message.  Vec indices are 0-based as in the source; a Vec is  *)
(* a TLA+ sequence, so v[i] of the source is v[i + 1] here.                *)
(***************************************************************************)
EXTENDS Integers, Sequences, FiniteSets, TLC

\* ------------------------------------------------------------ bounds ----
\* Callers of the contract, and the contract's own account (account_id()).
Accounts == {"alice", "bob"}
Me == "contract"

\* Most pairs the ledger holds at once, over all accounts (guard of stake).
MaxPairs == 2
\* Number of clock steps the environment takes.
MaxSteps == 3
\* Most withdrawals (claim, claim_all) accepted in one behaviour.
MaxClaims == 2
\* Blocks per clock step: 86400 / 5 blocks raise `clocks` of get_unstakable
\* by one, and the ledger is observed every second such interval, so that an
\* entry is seen at the unlock levels 0, 6, 8 and 10.
StepLen == 2 * (86400 \div 5)
\* Arguments the callers pass.
StakeAmounts == {0, 10, 100}
ClaimAmounts == {5, 50}
\* Token balances of the callers before the first message.
InitialTokens == [a \in Accounts |-> IF a = "alice" THEN 110 ELSE 10]

\* Balance is u128.  TLC computes with 32-bit integers, so the modulus of
\* the unsigned type is scaled down to 2^30; every non-wrapped quantity of
\* the model stays below 2^24 and only the wrap-around of an underflowing
\* subtraction ever comes near the modulus.
BalanceModulus == 2^30

\* When the curve is checked on its own the clock moves by half of the
\* 86400 / 5 blocks that raise `clocks` by one, MaxCurveSteps times, and the
\* curve is queried with the start blocks CurveStarts: half steps, and one
\* start that only a wrapped subtraction produces.
CurveStepLen == (86400 \div 5) \div 2
MaxCurveSteps == 202
MaxStartSteps == 3
CurveStarts == {k * CurveStepLen : k \in 0..MaxStartSteps} \cup {BalanceModulus - 5}

\* Result of a message or query that panicked.
Trap == -1

VARIABLES
    staked,           \* StorageHashMap<AccountId, Vec<Stake>>
    unstaked,         \* StorageHashMap<AccountId, Vec<Balance>>
    staking_time,     \* Balance
    block_time,       \* Balance
    token,            \* balances of the ERC-20 contract behind Erc20Ref
    block_number,     \* self.env().block_number()
    overflow_checks,  \* whether the build traps on integer overflow
    last,             \* the last message: its name, caller, argument, outcome
    n_claims,         \* withdrawals accepted so far (bounds the exploration)
    loop              \* the locals of a claim or claim_all whose loop is running

vars == <<staked, unstaked, staking_time, block_time, token, block_number,
          overflow_checks, last, n_claims, loop>>

\* ------------------------------------------------- unsigned arithmetic ----
\* a - b on Balance wraps when the build has no overflow checks; with the
\* checks the caller tests Underflows first and traps.
Underflows(a, b) == a < b
WrappingSub(a, b) == IF a >= b THEN a - b ELSE a - b + BalanceModulus

\* Mutant: the sum is replaced by its second operand (= written for +=).
WrappingAdd_Assign(a, b) == b % BalanceModulus

WrappingAdd(a, b) == (a + b) % BalanceModulus

\* Mutant: the first element is removed whatever the index.
Remove_First(v, i) == Tail(v)

\* Vec::remove(i), i 0-based: the later elements shift down by one.
Remove(v, i) == [k \in 1..(Len(v) - 1) |-> IF k <= i THEN v[k] ELSE v[k + 1]]

\* ------------------------------------------------------ unlock curve ----
\* Mutant: the curve is not capped at 10 past the fifth clock.
get_unstakable_NoCap(_start) ==
    IF block_number < _start THEN 0
    ELSE LET times == block_number - _start
             clocks == (times * block_time) \div (staking_time \div 5)
         IN  IF clocks = 0 THEN 0 ELSE 4 + clocks

\* Mutant: the cap is reached one clock early (>= for >).
get_unstakable_Early(_start) ==
    IF block_number < _start THEN 0
    ELSE LET times == block_number - _start
             clocks == (times * block_time) \div (staking_time \div 5)
         IN  IF clocks >= 5 THEN 10
             ELSE IF clocks = 0 THEN 0
             ELSE 4 + clocks

get_unstakable(_start) ==
    IF block_number < _start THEN 0
    ELSE LET times == block_number - _start
             clocks == (times * block_time) \div (staking_time \div 5)
         IN  IF clocks > 5 THEN 10
             ELSE IF clocks = 0 THEN 0
             ELSE 4 + clocks

\* ----------------------------------------------------- balance query ----
\* The argument get_balance hands to get_unstakable for entry i.
BalanceStartOperands(_addr, i) ==
    [lhs |-> (staked[_addr][i + 1].timestamp * staked[_addr][i + 1].amount) \div 10,
     rhs |-> unstaked[_addr][i + 1]]

RECURSIVE BalanceFrom(_, _, _)
BalanceFrom(_addr, i, balance) ==
    IF i >= Len(staked[_addr]) THEN balance
    ELSE IF _addr \notin DOMAIN unstaked \/ i >= Len(unstaked[_addr]) THEN Trap
    ELSE LET o == BalanceStartOperands(_addr, i)
         IN  IF Underflows(o.lhs, o.rhs) /\ overflow_checks THEN Trap
             ELSE BalanceFrom(_addr, i + 1,
                              balance + get_unstakable(WrappingSub(o.lhs, o.rhs)))

\* Mutant: an account without a key reads as an empty vector.
get_balance_Default(_addr) ==
    IF _addr \notin DOMAIN staked THEN 0
    ELSE BalanceFrom(_addr, 0, 0)

get_balance(_addr) ==
    IF _addr \notin DOMAIN staked THEN Trap
    ELSE BalanceFrom(_addr, 0, 0)

\* ------------------------------------------------------------- token ----
\* Erc20Ref::transfer_from: moves the value when the sender holds it, and
\* otherwise fails leaving the balances alone (the result is not read).
transfer_from(bal, from, to, value) ==
    IF bal[from] < value THEN bal
    ELSE [bal EXCEPT ![from] = @ - value, ![to] = @ + value]

\* ------------------------------------------------------------- Init ----
\* The value of `loop` when no claim or claim_all is inside its loop.
Idle ==
    [op |-> "idle", caller |-> Me, st |-> <<>>, un |-> <<>>, i |-> 0,
     length |-> 0, amount |-> 0, arg |-> 0, ret |-> 0, iterations |-> 0]

\* Mutant: the staking period is one clock (the factor 5 is left out).
Init_OneClock ==
    /\ staked = [a \in {} |-> <<>>]
    /\ unstaked = [a \in {} |-> <<>>]
    /\ staking_time = 86400
    /\ block_time = 5
    /\ token = [a \in Accounts \cup {Me} |-> IF a = Me THEN 0 ELSE InitialTokens[a]]
    /\ block_number = 0
    /\ overflow_checks \in BOOLEAN
    /\ last = [op |-> "new", caller |-> Me, arg |-> 0, outcome |-> "ok", ret |-> 0]
    /\ n_claims = 0
    /\ loop = Idle

Init ==
    /\ staked = [a \in {} |-> <<>>]
    /\ unstaked = [a \in {} |-> <<>>]
    /\ staking_time = 86400 * 5
    /\ block_time = 5
    /\ token = [a \in Accounts \cup {Me} |-> IF a = Me THEN 0 ELSE InitialTokens[a]]
    /\ block_number = 0
    /\ overflow_checks \in BOOLEAN
    /\ last = [op |-> "new", caller |-> Me, arg |-> 0, outcome |-> "ok", ret |-> 0]
    /\ n_claims = 0
    /\ loop = Idle

\* A map with key k set to v (StorageHashMap::insert, or get_mut on a key).
Put(map, k, v) == [a \in DOMAIN map \cup {k} |-> IF a = k THEN v ELSE map[a]]

RECURSIVE SumLen(_, _)
SumLen(map, keys) ==
    IF keys = {} THEN 0
    ELSE LET k == CHOOSE x \in keys : TRUE
         IN  Len(map[k]) + SumLen(map, keys \ {k})

TotalPairs == SumLen(staked, DOMAIN staked)

\* ------------------------------------------------------------ stake ----
\* Mutant: a deposit made in the tick of the caller's last entry is merged
\* into that entry.
StakePush_Merge(caller, _amount) ==
    LET entry == [timestamp |-> block_number, amount |-> _amount]
    IN  IF caller \in DOMAIN staked
        THEN LET v == staked[caller]
             IN  IF Len(v) > 0 /\ v[Len(v)].timestamp = block_number
                 THEN Put(staked, caller,
                          [v EXCEPT ![Len(v)].amount = @ + _amount])
                 ELSE Put(staked, caller, Append(v, entry))
        ELSE Put(staked, caller, <<entry>>)

StakePush(caller, _amount) ==
    LET entry == [timestamp |-> block_number, amount |-> _amount]
    IN  IF caller \in DOMAIN staked
        THEN Put(staked, caller, Append(staked[caller], entry))
        ELSE Put(staked, caller, <<entry>>)

\* Mutant: the first deposit of a caller inserts no withdrawn vector.
UnstakePush_NoInsert(caller) ==
    IF caller \in DOMAIN unstaked
    THEN Put(unstaked, caller, Append(unstaked[caller], 0))
    ELSE unstaked

UnstakePush(caller) ==
    IF caller \in DOMAIN unstaked
    THEN Put(unstaked, caller, Append(unstaked[caller], 0))
    ELSE Put(unstaked, caller, <<0>>)

\* Mutant: the funds of the caller are not checked.
InsufficientFunds_Never(caller, _amount) == FALSE

\* The early return of stake.
InsufficientFunds(caller, _amount) == token[caller] < _amount

stake(caller, _amount) ==
    /\ TotalPairs < MaxPairs
    /\ IF InsufficientFunds(caller, _amount)
       THEN /\ last' = [op |-> "stake", caller |-> caller, arg |-> _amount,
                        outcome |-> "rejected", ret |-> 0]
            /\ UNCHANGED <<staked, unstaked, token>>
       ELSE /\ staked' = StakePush(caller, _amount)
            /\ unstaked' = UnstakePush(caller)
            /\ token' = transfer_from(token, caller, Me, _amount)
            /\ last' = [op |-> "stake", caller |-> caller, arg |-> _amount,
                        outcome |-> "ok", ret |-> 0]
    /\ UNCHANGED <<staking_time, block_time, block_number, overflow_checks, n_claims,
                   loop>>

\* ------------------------------------------------------------ claim ----
\* Mutant: the division by 10 is left out.
UnlockedOf_NoDiv(st, i) ==
    get_unstakable(st[i + 1].timestamp) * st[i + 1].amount

\* What has unlocked of entry i so far: get_unstakable(timestamp) * amount / 10.
UnlockedOf(st, i) ==
    (get_unstakable(st[i + 1].timestamp) * st[i + 1].amount) \div 10

\* Mutant: when the pair covers what is left, the amount left is not set to 0
\* and the loop moves on to the next pair.
ClaimIteration_KeepsGoing(st, un, i, length, amount) ==
    LET panic == [trap |-> TRUE, st |-> st, un |-> un, i |-> i,
                  length |-> length, amount |-> amount]
    IN  IF i >= Len(st) \/ i >= Len(un) THEN panic
        ELSE IF Underflows(UnlockedOf(st, i), un[i + 1]) /\ overflow_checks
        THEN panic
        ELSE LET unstakable == WrappingSub(UnlockedOf(st, i), un[i + 1])
             IN  IF unstakable > amount
                 THEN [trap |-> FALSE, st |-> st,
                       un |-> [un EXCEPT ![i + 1] = WrappingAdd(@, amount)],
                       i |-> i + 1, length |-> length, amount |-> amount]
                 ELSE LET un2 == [un EXCEPT ![i + 1] = WrappingAdd(@, unstakable)]
                      IN  IF st[i + 1].amount = un2[i + 1]
                          THEN [trap |-> FALSE, st |-> Remove(st, i),
                                un |-> Remove(un2, i), i |-> i,
                                length |-> length - 1,
                                amount |-> amount - unstakable]
                          ELSE [trap |-> FALSE, st |-> st, un |-> un2,
                                i |-> i + 1, length |-> length,
                                amount |-> amount - unstakable]

\* Mutant: a pair that is consumed and stays in the ledger does not advance
\* the index (the else branch with i += 1 is left out).
ClaimIteration_Stuck(st, un, i, length, amount) ==
    LET panic == [trap |-> TRUE, st |-> st, un |-> un, i |-> i,
                  length |-> length, amount |-> amount]
    IN  IF i >= Len(st) \/ i >= Len(un) THEN panic
        ELSE IF Underflows(UnlockedOf(st, i), un[i + 1]) /\ overflow_checks
        THEN panic
        ELSE LET unstakable == WrappingSub(UnlockedOf(st, i), un[i + 1])
             IN  IF unstakable > amount
                 THEN [trap |-> FALSE, st |-> st,
                       un |-> [un EXCEPT ![i + 1] = WrappingAdd(@, amount)],
                       i |-> i, length |-> length, amount |-> 0]
                 ELSE LET un2 == [un EXCEPT ![i + 1] = WrappingAdd(@, unstakable)]
                      IN  IF st[i + 1].amount = un2[i + 1]
                          THEN [trap |-> FALSE, st |-> Remove(st, i),
                                un |-> Remove(un2, i), i |-> i,
                                length |-> length - 1,
                                amount |-> amount - unstakable]
                          ELSE [trap |-> FALSE, st |-> st, un |-> un2,
                                i |-> i, length |-> length,
                                amount |-> amount - unstakable]

\* One iteration of the loop of claim at index i, entered with i < length
\* and amount > 0, over the caller's two vectors; `length` and `amount` are
\* the loop's locals.  The result holds the vectors and the locals after the
\* iteration, and whether the iteration panicked.
ClaimIteration(st, un, i, length, amount) ==
    LET panic == [trap |-> TRUE, st |-> st, un |-> un, i |-> i,
                  length |-> length, amount |-> amount]
    IN  IF i >= Len(st) \/ i >= Len(un) THEN panic
        ELSE IF Underflows(UnlockedOf(st, i), un[i + 1]) /\ overflow_checks
        THEN panic
        ELSE LET unstakable == WrappingSub(UnlockedOf(st, i), un[i + 1])
             IN  IF unstakable > amount
                 THEN [trap |-> FALSE, st |-> st,
                       un |-> [un EXCEPT ![i + 1] = WrappingAdd(@, amount)],
                       i |-> i, length |-> length, amount |-> 0]
                 ELSE LET un2 == [un EXCEPT ![i + 1] = WrappingAdd(@, unstakable)]
                      IN  IF st[i + 1].amount = un2[i + 1]
                          THEN [trap |-> FALSE, st |-> Remove(st, i),
                                un |-> Remove(un2, i), i |-> i,
                                length |-> length - 1,
                                amount |-> amount - unstakable]
                          ELSE [trap |-> FALSE, st |-> st, un |-> un2,
                                i |-> i + 1, length |-> length,
                                amount |-> amount - unstakable]

\* The loop of claim runs while i < length and amount > 0.
ClaimContinues(i, length, amount) == i < length /\ amount > 0

\* The loop of claim from index i on.  The result holds the vectors after
\* the loop, the amount left over and whether an iteration panicked.
RECURSIVE ClaimLoop(_, _, _, _, _)
ClaimLoop(st, un, i, length, amount) ==
    IF ~ClaimContinues(i, length, amount)
    THEN [trap |-> FALSE, st |-> st, un |-> un, amount |-> amount]
    ELSE LET n == ClaimIteration(st, un, i, length, amount)
         IN  IF n.trap
             THEN [trap |-> TRUE, st |-> st, un |-> un, amount |-> amount]
             ELSE ClaimLoop(n.st, n.un, n.i, n.length, n.amount)

\* The token balances after claim's transfer of _claim_amount.
ClaimTransfer(caller, _claim_amount) ==
    transfer_from(token, Me, caller, _claim_amount)

claim(caller, _amount) ==
    /\ n_claims < MaxClaims
    /\ LET balance == get_balance(caller)
           done == [op |-> "claim", caller |-> caller, arg |-> _amount,
                    outcome |-> "ok", ret |-> balance]
       IN  IF balance = Trap
           THEN /\ last' = [done EXCEPT !.outcome = "trap", !.ret = 0]
                /\ UNCHANGED <<staked, unstaked, token, n_claims>>
           ELSE IF balance < _amount
           THEN /\ last' = [done EXCEPT !.outcome = "rejected"]
                /\ UNCHANGED <<staked, unstaked, token, n_claims>>
           ELSE LET r == ClaimLoop(staked[caller], unstaked[caller], 0,
                                   Len(staked[caller]), _amount)
                IN  IF r.trap
                    THEN /\ last' = [done EXCEPT !.outcome = "trap", !.ret = 0]
                         /\ UNCHANGED <<staked, unstaked, token, n_claims>>
                    ELSE /\ staked' = Put(staked, caller, r.st)
                         /\ unstaked' = Put(unstaked, caller, r.un)
                         /\ token' = ClaimTransfer(caller, _amount)
                         /\ last' = done
                         /\ n_claims' = n_claims + 1
    /\ UNCHANGED <<staking_time, block_time, block_number, overflow_checks, loop>>

\* -------------------------------------------------------- claim_all ----
\* Mutant: the index advances after a removal too, so the pair that shifted
\* into the freed slot is not visited.
ClaimAllIteration_Skip(st, un, i, _length) ==
    LET panic == [trap |-> TRUE, st |-> st, un |-> un, i |-> i,
                  length |-> _length]
    IN  IF i >= Len(st) \/ i >= Len(un) THEN panic
        ELSE IF Underflows(UnlockedOf(st, i), un[i + 1]) /\ overflow_checks
        THEN panic
        ELSE LET unstakable == WrappingSub(UnlockedOf(st, i), un[i + 1])
                 un2 == [un EXCEPT ![i + 1] = WrappingAdd(@, unstakable)]
             IN  IF st[i + 1].amount = un2[i + 1]
                 THEN [trap |-> FALSE, st |-> Remove(st, i),
                       un |-> Remove(un2, i), i |-> i + 1,
                       length |-> _length - 1]
                 ELSE [trap |-> FALSE, st |-> st, un |-> un2, i |-> i + 1,
                       length |-> _length]

\* One iteration of the loop of claim_all at index i, entered with
\* i < _length.
ClaimAllIteration(st, un, i, _length) ==
    LET panic == [trap |-> TRUE, st |-> st, un |-> un, i |-> i,
                  length |-> _length]
    IN  IF i >= Len(st) \/ i >= Len(un) THEN panic
        ELSE IF Underflows(UnlockedOf(st, i), un[i + 1]) /\ overflow_checks
        THEN panic
        ELSE LET unstakable == WrappingSub(UnlockedOf(st, i), un[i + 1])
                 un2 == [un EXCEPT ![i + 1] = WrappingAdd(@, unstakable)]
             IN  IF st[i + 1].amount = un2[i + 1]
                 THEN [trap |-> FALSE, st |-> Remove(st, i),
                       un |-> Remove(un2, i), i |-> i,
                       length |-> _length - 1]
                 ELSE [trap |-> FALSE, st |-> st, un |-> un2, i |-> i + 1,
                       length |-> _length]

\* The loop of claim_all runs while i < _length.
ClaimAllContinues(i, _length) == i < _length

\* The loop of claim_all from index i on.
RECURSIVE ClaimAllLoop(_, _, _, _)
ClaimAllLoop(st, un, i, _length) ==
    IF ~ClaimAllContinues(i, _length)
    THEN [trap |-> FALSE, st |-> st, un |-> un]
    ELSE LET n == ClaimAllIteration(st, un, i, _length)
         IN  IF n.trap
             THEN [trap |-> TRUE, st |-> st, un |-> un]
             ELSE ClaimAllLoop(n.st, n.un, n.i, n.length)

\* The token balances after claim_all's transfer of the balance it computed.
ClaimAllTransfer(caller, balance) ==
    transfer_from(token, caller, Me, balance)

claim_all(caller) ==
    /\ n_claims < MaxClaims
    /\ LET balance == get_balance(caller)
           done == [op |-> "claim_all", caller |-> caller, arg |-> 0,
                    outcome |-> "ok", ret |-> balance]
       IN  IF balance = Trap
           THEN /\ last' = [done EXCEPT !.outcome = "trap", !.ret = 0]
                /\ UNCHANGED <<staked, unstaked, token, n_claims>>
           ELSE IF balance <= 0
           THEN /\ last' = [done EXCEPT !.outcome = "rejected"]
                /\ UNCHANGED <<staked, unstaked, token, n_claims>>
           ELSE LET r == ClaimAllLoop(staked[caller], unstaked[caller], 0,
                                      Len(staked[caller]))
                IN  IF r.trap
                    THEN /\ last' = [done EXCEPT !.outcome = "trap", !.ret = 0]
                         /\ UNCHANGED <<staked, unstaked, token, n_claims>>
                    ELSE /\ staked' = Put(staked, caller, r.st)
                         /\ unstaked' = Put(unstaked, caller, r.un)
                         /\ token' = ClaimAllTransfer(caller, balance)
                         /\ last' = done
                         /\ n_claims' = n_claims + 1
    /\ UNCHANGED <<staking_time, block_time, block_number, overflow_checks, loop>>

\* ---------------------------------------------------------- queries ----
\* The message get_balance(_addr): the state is left alone, the value (or
\* the panic) is what the caller sees.
get_balance_msg(_addr) ==
    /\ LET balance == get_balance(_addr)
       IN  last' = [op |-> "get_balance", caller |-> _addr, arg |-> 0,
                    outcome |-> IF balance = Trap THEN "trap" ELSE "ok",
                    ret |-> IF balance = Trap THEN 0 ELSE balance]
    /\ UNCHANGED <<staked, unstaked, staking_time, block_time, token,
                   block_number, overflow_checks, n_claims, loop>>

\* The message get_unstakable(_start).
get_unstakable_msg(_start) ==
    /\ last' = [op |-> "get_unstakable", caller |-> Me, arg |-> _start,
                outcome |-> "ok", ret |-> get_unstakable(_start)]
    /\ UNCHANGED <<staked, unstaked, staking_time, block_time, token,
                   block_number, overflow_checks, n_claims, loop>>

\* The value of get_staked_timestamp(_addr, _index): entry 0 of the account's
\* vector whatever the index; unwrap and [0] panic on a missing key and on an
\* empty vector.
get_staked_timestamp(_addr, _index) ==
    IF _addr \notin DOMAIN staked THEN Trap
    ELSE IF Len(staked[_addr]) = 0 THEN Trap
    ELSE staked[_addr][1].timestamp

\* The value of get_staked_amount(_addr, _index), read the same way.
get_staked_amount(_addr, _index) ==
    IF _addr \notin DOMAIN staked THEN Trap
    ELSE IF Len(staked[_addr]) = 0 THEN Trap
    ELSE staked[_addr][1].amount

\* The message get_staked_timestamp(_addr, _index).
get_staked_timestamp_msg(_addr, _index) ==
    /\ LET v == get_staked_timestamp(_addr, _index)
       IN  last' = [op |-> "get_staked_timestamp", caller |-> _addr,
                    arg |-> _index,
                    outcome |-> IF v = Trap THEN "trap" ELSE "ok",
                    ret |-> IF v = Trap THEN 0 ELSE v]
    /\ UNCHANGED <<staked, unstaked, staking_time, block_time, token,
                   block_number, overflow_checks, n_claims, loop>>

\* The message get_staked_amount(_addr, _index).
get_staked_amount_msg(_addr, _index) ==
    /\ LET v == get_staked_amount(_addr, _index)
       IN  last' = [op |-> "get_staked_amount", caller |-> _addr,
                    arg |-> _index,
                    outcome |-> IF v = Trap THEN "trap" ELSE "ok",
                    ret |-> IF v = Trap THEN 0 ELSE v]
    /\ UNCHANGED <<staked, unstaked, staking_time, block_time, token,
                   block_number, overflow_checks, n_claims, loop>>

\* ------------------------------------------------------ environment ----
\* The chain produces blocks; the ledger is observed every StepLen blocks.
Tick ==
    /\ block_number < MaxSteps * StepLen
    /\ block_number' = block_number + StepLen
    /\ last' = [op |-> "tick", caller |-> Me, arg |-> 0, outcome |-> "ok", ret |-> 0]
    /\ UNCHANGED <<staked, unstaked, staking_time, block_time, token, overflow_checks,
                   n_claims, loop>>

Next ==
    \/ \E c \in Accounts, a \in StakeAmounts : stake(c, a)
    \/ \E c \in Accounts, a \in ClaimAmounts : claim(c, a)
    \/ \E c \in Accounts : claim_all(c)
    \/ \E c \in Accounts : get_balance_msg(c)
    \/ Tick

Spec == Init /\ [][Next]_vars

\* ------------------------------------------- the entry accessors ----
\* The 0-based indexes the accessors are queried with.
Indexes == 0..(MaxPairs - 1)

\* Deposits, the clock, and the two entry accessors queried at every index.
AccessorNext ==
    \/ \E c \in Accounts, a \in StakeAmounts : stake(c, a)
    \/ \E c \in Accounts, n \in Indexes : get_staked_timestamp_msg(c, n)
    \/ \E c \in Accounts, n \in Indexes : get_staked_amount_msg(c, n)
    \/ Tick

AccessorSpec == Init /\ [][AccessorNext]_vars

\* ------------------------------------------- the loops step by step ----
\* claim up to its loop: the precondition, and the locals the loop starts
\* with.  The writes of the loop are held in `loop` until the message ends,
\* as a panic inside the loop reverts them.
claim_enter(caller, _amount) ==
    /\ loop = Idle
    /\ n_claims < MaxClaims
    /\ LET balance == get_balance(caller)
           done == [op |-> "claim", caller |-> caller, arg |-> _amount,
                    outcome |-> "ok", ret |-> balance]
       IN  IF balance = Trap
           THEN /\ last' = [done EXCEPT !.outcome = "trap", !.ret = 0]
                /\ UNCHANGED loop
           ELSE IF balance < _amount
           THEN /\ last' = [done EXCEPT !.outcome = "rejected"]
                /\ UNCHANGED loop
           ELSE /\ loop' = [op |-> "claim", caller |-> caller,
                            st |-> staked[caller], un |-> unstaked[caller],
                            i |-> 0, length |-> Len(staked[caller]),
                            amount |-> _amount, arg |-> _amount,
                            ret |-> balance, iterations |-> 0]
                /\ UNCHANGED last
    /\ UNCHANGED <<staked, unstaked, staking_time, block_time, token,
                   block_number, overflow_checks, n_claims>>

\* One iteration of the loop of the running claim.
claim_iterate ==
    /\ loop.op = "claim"
    /\ ClaimContinues(loop.i, loop.length, loop.amount)
    /\ LET n == ClaimIteration(loop.st, loop.un, loop.i, loop.length, loop.amount)
       IN  IF n.trap
           THEN /\ loop' = Idle
                /\ last' = [op |-> "claim", caller |-> loop.caller,
                            arg |-> loop.arg, outcome |-> "trap", ret |-> 0]
           ELSE /\ loop' = [loop EXCEPT !.st = n.st, !.un = n.un, !.i = n.i,
                                        !.length = n.length,
                                        !.amount = n.amount,
                                        !.iterations = @ + 1]
                /\ UNCHANGED last
    /\ UNCHANGED <<staked, unstaked, staking_time, block_time, token,
                   block_number, overflow_checks, n_claims>>

\* The loop of the running claim breaks; the transfer follows.
claim_exit ==
    /\ loop.op = "claim"
    /\ ~ClaimContinues(loop.i, loop.length, loop.amount)
    /\ staked' = Put(staked, loop.caller, loop.st)
    /\ unstaked' = Put(unstaked, loop.caller, loop.un)
    /\ token' = ClaimTransfer(loop.caller, loop.arg)
    /\ last' = [op |-> "claim", caller |-> loop.caller, arg |-> loop.arg,
                outcome |-> "ok", ret |-> loop.ret]
    /\ n_claims' = n_claims + 1
    /\ loop' = Idle
    /\ UNCHANGED <<staking_time, block_time, block_number, overflow_checks>>

\* claim_all up to its loop.
claim_all_enter(caller) ==
    /\ loop = Idle
    /\ n_claims < MaxClaims
    /\ LET balance == get_balance(caller)
           done == [op |-> "claim_all", caller |-> caller, arg |-> 0,
                    outcome |-> "ok", ret |-> balance]
       IN  IF balance = Trap
           THEN /\ last' = [done EXCEPT !.outcome = "trap", !.ret = 0]
                /\ UNCHANGED loop
           ELSE IF balance <= 0
           THEN /\ last' = [done EXCEPT !.outcome = "rejected"]
                /\ UNCHANGED loop
           ELSE /\ loop' = [op |-> "claim_all", caller |-> caller,
                            st |-> staked[caller], un |-> unstaked[caller],
                            i |-> 0, length |-> Len(staked[caller]),
                            amount |-> 0, arg |-> 0,
                            ret |-> balance, iterations |-> 0]
                /\ UNCHANGED last
    /\ UNCHANGED <<staked, unstaked, staking_time, block_time, token,
                   block_number, overflow_checks, n_claims>>

\* One iteration of the loop of the running claim_all.
claim_all_iterate ==
    /\ loop.op = "claim_all"
    /\ ClaimAllContinues(loop.i, loop.length)
    /\ LET n == ClaimAllIteration(loop.st, loop.un, loop.i, loop.length)
       IN  IF n.trap
           THEN /\ loop' = Idle
                /\ last' = [op |-> "claim_all", caller |-> loop.caller,
                            arg |-> 0, outcome |-> "trap", ret |-> 0]
           ELSE /\ loop' = [loop EXCEPT !.st = n.st, !.un = n.un, !.i = n.i,
                                        !.length = n.length,
                                        !.iterations = @ + 1]
                /\ UNCHANGED last
    /\ UNCHANGED <<staked, unstaked, staking_time, block_time, token,
                   block_number, overflow_checks, n_claims>>

\* The loop of the running claim_all breaks; the transfer follows.
claim_all_exit ==
    /\ loop.op = "claim_all"
    /\ ~ClaimAllContinues(loop.i, loop.length)
    /\ staked' = Put(staked, loop.caller, loop.st)
    /\ unstaked' = Put(unstaked, loop.caller, loop.un)
    /\ token' = ClaimAllTransfer(loop.caller, loop.ret)
    /\ last' = [op |-> "claim_all", caller |-> loop.caller, arg |-> 0,
                outcome |-> "ok", ret |-> loop.ret]
    /\ n_claims' = n_claims + 1
    /\ loop' = Idle
    /\ UNCHANGED <<staking_time, block_time, block_number, overflow_checks>>

\* Messages are atomic: no other message and no block falls between the
\* iterations of a running loop.
LoopNext ==
    \/ loop = Idle /\ \E c \in Accounts, a \in StakeAmounts : stake(c, a)
    \/ \E c \in Accounts, a \in ClaimAmounts : claim_enter(c, a)
    \/ claim_iterate
    \/ claim_exit
    \/ \E c \in Accounts : claim_all_enter(c)
    \/ claim_all_iterate
    \/ claim_all_exit
    \/ loop = Idle /\ Tick

LoopSpec == Init /\ [][LoopNext]_vars

\* --------------------------------------------- the curve on its own ----
\* The unlock curve queried at every half step of the clock, far past the
\* end of the staking period, with the ledger left empty.
CurveTick ==
    /\ block_number < MaxCurveSteps * CurveStepLen
    /\ block_number' = block_number + CurveStepLen
    /\ last' = [op |-> "tick", caller |-> Me, arg |-> 0, outcome |-> "ok", ret |-> 0]
    /\ UNCHANGED <<staked, unstaked, staking_time, block_time, token, overflow_checks,
                   n_claims, loop>>

CurveNext ==
    \/ \E s \in CurveStarts : get_unstakable_msg(s)
    \/ CurveTick

CurveSpec == Init /\ [][CurveNext]_vars

\* ======================================================= properties ====
\* What the specification calls the unlockable value of a stake entry:
\* floor(unlock_level(now - timestamp) * amount / 10).
Unlockable(e) == (get_unstakable(e.timestamp) * e.amount) \div 10

\* The vectors of an account, empty when the map has no key for it.
StakesOf(a) == IF a \in DOMAIN staked THEN staked[a] ELSE <<>>
WithdrawnOf(a) == IF a \in DOMAIN unstaked THEN unstaked[a] ELSE <<>>

RECURSIVE SumUnlockable(_, _)
SumUnlockable(st, n) ==
    IF n = 0 THEN 0 ELSE Unlockable(st[n]) + SumUnlockable(st, n - 1)

RECURSIVE SumSeq(_, _)
SumSeq(v, n) == IF n = 0 THEN 0 ELSE v[n] + SumSeq(v, n - 1)

\* The unlocked-but-unwithdrawn total of an account.
ClaimableSum(a) ==
    SumUnlockable(staked[a], Len(staked[a])) - SumSeq(unstaked[a], Len(unstaked[a]))

\* C1: get_balance(account) returns the sum over the account's pairs of
\* floor(unlock_level(now - timestamp) * amount / 10) - withdrawn_amount.
C1_BalanceIsClaimableSum ==
    (last.op = "get_balance" /\ last.outcome = "ok")
        => last.ret = ClaimableSum(last.caller)

\* A step of claim asking for a positive amount below the unlocked-but-
\* unwithdrawn remainder of the caller's oldest pair, and what C2 says of it.
PartialClaimStep ==
    LET c == last'.caller
    IN  (/\ last'.op = "claim"
         /\ Len(StakesOf(c)) > 0
         /\ Len(WithdrawnOf(c)) > 0
         /\ last'.arg > 0
         /\ last'.arg < Unlockable(staked[c][1]) - unstaked[c][1])
        => /\ last'.outcome = "ok"
           /\ unstaked'[c][1] = unstaked[c][1] + last'.arg
           /\ staked'[c] = staked[c]
           /\ Len(unstaked'[c]) = Len(unstaked[c])

\* C2: a claim of a positive amount strictly below the unlocked-but-
\* unwithdrawn remainder of the caller's oldest pair is accepted, adds
\* exactly that amount to the pair's withdrawn_amount and keeps the pair.
C2_PartialClaimAccepted == [][PartialClaimStep]_vars

\* An accepted step of claim_all, and the token movement C3 says it makes.
ClaimAllPaysStep ==
    (last'.op = "claim_all" /\ last'.outcome = "ok")
        => /\ last'.ret > 0
           /\ token'[last'.caller] = token[last'.caller] + last'.ret
           /\ token'[Me] = token[Me] - last'.ret

\* C3: an accepted claim_all with claimable balance B > 0 raises the
\* caller's token balance by B and lowers the contract's by B.
C3_ClaimAllPaysCaller == [][ClaimAllPaysStep]_vars

\* C4: every pair of every account has withdrawn_amount at most
\* floor(unlock_level(now - timestamp) * amount / 10), and so the withdrawn
\* amounts of an account sum to at most the sum of its unlockable values.
C4_WithdrawnBounded ==
    \A a \in DOMAIN staked \cap DOMAIN unstaked :
        /\ \A i \in (DOMAIN staked[a]) \cap (DOMAIN unstaked[a]) :
               unstaked[a][i] <= Unlockable(staked[a][i])
        /\ Len(staked[a]) = Len(unstaked[a])
               => SumSeq(unstaked[a], Len(unstaked[a]))
                      <= SumUnlockable(staked[a], Len(staked[a]))

\* C4 witness: a claim has left a pair with a positive withdrawn_amount
\* below its stake amount.
C4_Witness ==
    /\ last.op = "claim" /\ last.outcome = "ok"
    /\ \E i \in DOMAIN unstaked[last.caller] :
           /\ unstaked[last.caller][i] > 0
           /\ unstaked[last.caller][i] = Unlockable(staked[last.caller][i])

\* C5: the two maps have the same keys, and for every account the stake
\* vector and the withdrawn vector have the same length.
C5_VectorsInLockstep ==
    /\ DOMAIN staked = DOMAIN unstaked
    /\ \A a \in DOMAIN staked : Len(staked[a]) = Len(unstaked[a])

\* C5 witness: two callers hold a vector, one of them emptied by a withdrawal.
C5_Witness ==
    /\ DOMAIN staked = Accounts
    /\ last.op \in {"claim", "claim_all"} /\ last.outcome = "ok"
    /\ \E a \in Accounts : Len(staked[a]) = 0
    /\ \E a \in Accounts : Len(staked[a]) > 0

\* No pair of any account has withdrawn_amount equal to its stake amount.
NoExhaustedPair ==
    \A a \in DOMAIN staked \cap DOMAIN unstaked :
        \A i \in (DOMAIN staked[a]) \cap (DOMAIN unstaked[a]) :
            unstaked[a][i] # staked[a][i].amount

\* The same of the pairs that hold a positive stake amount.
NoExhaustedPositivePair ==
    \A a \in DOMAIN staked \cap DOMAIN unstaked :
        \A i \in (DOMAIN staked[a]) \cap (DOMAIN unstaked[a]) :
            staked[a][i].amount > 0 => unstaked[a][i] # staked[a][i].amount

\* The pairs (st2, un2) are pairs of (st1, un1) in their order, each with its
\* own stake entry and a withdrawn_amount that has not dropped, and every
\* pair left out was fully unlocked.
IsOrderedRemnant(st1, un1, st2, un2) ==
    /\ Len(st2) = Len(un2)
    /\ \E f \in [1..Len(st2) -> 1..Len(st1)] :
           /\ \A j, k \in 1..Len(st2) : j < k => f[j] < f[k]
           /\ \A k \in 1..Len(st2) :
                  /\ st2[k] = st1[f[k]]
                  /\ un2[k] >= un1[f[k]]
           /\ \A j \in 1..Len(st1) :
                  (\A k \in 1..Len(st2) : f[k] # j)
                      => Unlockable(st1[j]) = st1[j].amount

\* A step of claim or claim_all keeps the caller's remaining pairs in order.
RemovalKeepsOrder ==
    (last'.op \in {"claim", "claim_all"} /\ last'.outcome = "ok")
        => /\ IsOrderedRemnant(staked[last'.caller], unstaked[last'.caller],
                               staked'[last'.caller], unstaked'[last'.caller])
           /\ \A a \in DOMAIN staked \ {last'.caller} :
                  staked'[a] = staked[a] /\ unstaked'[a] = unstaked[a]

RejectedStep ==
    LET c == last'.caller
        rejected ==
            \/ last'.op = "stake" /\ token[c] < last'.arg
            \/ /\ last'.op = "claim"
               /\ get_balance(c) # Trap
               /\ last'.arg > get_balance(c)
            \/ last'.op = "claim_all" /\ get_balance(c) = 0
    IN  rejected => /\ staked' = staked
                    /\ unstaked' = unstaked
                    /\ token' = token

\* C7: stake with less funds than the amount, claim of more than
\* get_balance(caller) and claim_all with get_balance(caller) = 0 leave both
\* maps and every token balance as they were.
C7_RejectedIsNoOp == [][RejectedStep]_vars

\* C7 witness: a claim of more than get_balance(caller) was rejected while
\* the caller held a pair.
C7_Witness ==
    /\ last.op = "claim" /\ last.outcome = "rejected"
    /\ last.arg > get_balance(last.caller)
    /\ Len(staked[last.caller]) > 0

\* An accepted step of stake appends one pair to the caller's vectors.
StakeStep ==
    LET c == last'.caller
    IN  (last'.op = "stake" /\ token[c] >= last'.arg)
        => /\ DOMAIN staked' = DOMAIN staked \cup {c}
           /\ DOMAIN unstaked' = DOMAIN unstaked \cup {c}
           /\ staked'[c] = Append(StakesOf(c),
                                  [timestamp |-> block_number, amount |-> last'.arg])
           /\ unstaked'[c] = Append(WithdrawnOf(c), 0)
           /\ \A a \in DOMAIN staked \ {c} : staked'[a] = staked[a]
           /\ \A a \in DOMAIN unstaked \ {c} : unstaked'[a] = unstaked[a]

\* C8: an accepted stake(A) by X at block t appends the one pair (A, t, 0)
\* at the end of X's vectors and leaves X's earlier pairs and every other
\* account's vectors alone; deposits of one tick are not merged.
C8_StakeAppendsOnePair == [][StakeStep]_vars

\* C8 witness: a stake has left its caller with two pairs staked in the
\* same tick, the earlier one of positive amount.
C8_Witness ==
    /\ last.op = "stake" /\ last.outcome = "ok"
    /\ Len(staked[last.caller]) = 2
    /\ staked[last.caller][1].timestamp = staked[last.caller][2].timestamp
    /\ staked[last.caller][1].amount > 0

\* C9: get_unstakable returns an integer in 0..10 for every start and
\* current block, 0 when the start is later than the current block, and a
\* value that does not drop as the elapsed blocks grow.
C9_CurveTotalMonotone ==
    last.op = "get_unstakable"
        => /\ last.ret \in 0..10
           /\ last.arg > block_number => last.ret = 0
           /\ \A s \in CurveStarts :
                  (s <= last.arg /\ last.arg <= block_number)
                      => get_unstakable(s) >= last.ret

\* C9 witness: the curve was queried with a start later than the current
\* block, and with an earlier start it has risen above 0.
C9_Witness ==
    /\ last.op = "get_unstakable"
    /\ last.arg > block_number
    /\ last.ret = 0
    /\ get_unstakable(0) > 0

\* The value the specification's table gives for `clocks`.
CurveTable(clocks) ==
    IF clocks = 0 THEN 0
    ELSE IF clocks <= 5 THEN <<5, 6, 7, 8, 9>>[clocks]
    ELSE 10

\* C10: with staking_period 432000 and tick_duration 5 the evaluator
\* returns the table's value for clocks = floor(elapsed * 5 / 86400): 0 for
\* 0, 5..9 for 1..5 and 10 above 5.
C10_CurveTable ==
    (/\ last.op = "get_unstakable"
     /\ last.arg <= block_number
     /\ staking_time = 432000
     /\ block_time = 5)
        => last.ret = CurveTable(((block_number - last.arg) * 5) \div 86400)

\* C10 witness: the curve was queried at clocks = 100.
C10_Witness ==
    /\ last.op = "get_unstakable"
    /\ last.arg <= block_number
    /\ ((block_number - last.arg) * 5) \div 86400 = 100
    /\ last.ret = 10

\* ------------------------------------------------------------------------
\* C11 as stated: get_balance on an account whose ledger holds no pairs,
\* whether it never staked or every pair was removed by withdrawals, fails
\* and never returns 0.
C11_Original ==
    (last.op = "get_balance" /\ Len(StakesOf(last.caller)) = 0)
        => last.outcome = "trap"

\* C11: get_balance fails on an account that has never staked (the map has
\* no key for it), and returns 0 on an account whose pairs have all been
\* removed by withdrawals (the key stays, with an empty vector).
C11_EmptyLedgerQuery ==
    last.op = "get_balance" =>
        /\ last.caller \notin DOMAIN staked => last.outcome = "trap"
        /\ (last.caller \in DOMAIN staked /\ Len(staked[last.caller]) = 0)
               => (last.outcome = "ok" /\ last.ret = 0)

\* C11 witness: the query ran on an account that holds a key and no pairs,
\* its pairs having been removed by a withdrawal, and returned 0.
C11_Witness ==
    /\ last.op = "get_balance"
    /\ last.caller \in DOMAIN staked
    /\ Len(staked[last.caller]) = 0
    /\ last.outcome = "ok"
    /\ last.ret = 0

\* ------------------------------------------------------------------------
\* C12: an accepted claim(requested) moves exactly `requested` tokens from
\* the contract's token account to the caller's, whatever the walk added to
\* the withdrawn amounts; the transfer follows the ledger mutations of the
\* same message.
ClaimMovesRequestedStep ==
    (last'.op = "claim" /\ last'.outcome = "ok") =>
        /\ token'[last'.caller] = token[last'.caller] + last'.arg
        /\ token'[Me] = token[Me] - last'.arg

C12_ClaimMovesRequested == [][ClaimMovesRequestedStep]_vars

\* ------------------------------------------------------------------------
\* C13: get_staked_timestamp(account, n) and get_staked_amount(account, n)
\* return the timestamp and the amount of the account's n-th entry, for
\* every n within the length of the account's ledger.
C13_AccessorsReadNthEntry ==
    /\ (/\ last.op = "get_staked_timestamp"
        /\ last.arg < Len(StakesOf(last.caller)))
           => /\ last.outcome = "ok"
              /\ last.ret = staked[last.caller][last.arg + 1].timestamp
    /\ (/\ last.op = "get_staked_amount"
        /\ last.arg < Len(StakesOf(last.caller)))
           => /\ last.outcome = "ok"
              /\ last.ret = staked[last.caller][last.arg + 1].amount

\* ------------------------------------------------------------------------
\* The pairs (st2, un2) are pairs of (st1, un1) in their order, each with the
\* amount and timestamp it had and a withdrawn_amount that has not dropped.
PairsKept(st1, un1, st2, un2) ==
    /\ Len(st2) = Len(un2)
    /\ \E f \in [1..Len(st2) -> 1..Len(st1)] :
           /\ \A j, k \in 1..Len(st2) : j < k => f[j] < f[k]
           /\ \A k \in 1..Len(st2) :
                  /\ st2[k].amount = st1[f[k]].amount
                  /\ st2[k].timestamp = st1[f[k]].timestamp
                  /\ un2[k] >= un1[f[k]]

\* What a step does to the pairs of account a: an accepted stake of a appends
\* one pair after the ones it had, an accepted claim or claim_all of a
\* removes pairs and raises withdrawn amounts, and any other step leaves
\* the pairs of a as they were.
PairsPersistStep(a) ==
    LET st1 == StakesOf(a)
        un1 == WithdrawnOf(a)
        mine == last'.caller = a /\ last'.outcome = "ok"
    IN  /\ a \in DOMAIN staked' /\ a \in DOMAIN unstaked'
        /\ IF mine /\ last'.op = "stake"
           THEN /\ Len(staked'[a]) = Len(st1) + 1
                /\ Len(unstaked'[a]) = Len(un1) + 1
                /\ SubSeq(staked'[a], 1, Len(st1)) = st1
                /\ SubSeq(unstaked'[a], 1, Len(un1)) = un1
           ELSE IF mine /\ last'.op \in {"claim", "claim_all"}
           THEN PairsKept(st1, un1, staked'[a], unstaked'[a])
           ELSE staked'[a] = st1 /\ unstaked'[a] = un1

\* C14: across every step, a pair present before and after the step keeps
\* its amount and its timestamp and its withdrawn_amount does not decrease;
\* entries are only appended (by stake) or removed (by claim, claim_all).
C14_PairsPersist ==
    [][\A a \in DOMAIN staked' \cup DOMAIN unstaked' : PairsPersistStep(a)]_vars

\* C14 witness: a claim has raised the withdrawn_amount of the caller's first
\* pair by the amount asked for and kept both of the caller's pairs.
C14_Witness ==
    /\ last.op = "claim" /\ last.outcome = "ok"
    /\ Len(staked[last.caller]) = 2
    /\ unstaked[last.caller][1] >= last.arg
    /\ unstaked[last.caller][1] < staked[last.caller][1].amount

\* ------------------------------------------------------------------------
\* C15: after construction staking_period is 432000, tick_duration is 5 and
\* both maps are empty, and no sequence of operations changes
\* staking_period or tick_duration.
C15_ConstantsFrozen ==
    /\ staking_time = 432000
    /\ block_time = 5
    /\ last.op = "new" => (DOMAIN staked = {} /\ DOMAIN unstaked = {})

\* C15 witness: deposits, a withdrawal by claim and a withdrawal by claim_all
\* have run, at the last step of the clock.
C15_Witness ==
    /\ DOMAIN staked = Accounts
    /\ n_claims = MaxClaims
    /\ last.op = "claim_all" /\ last.outcome = "ok"
    /\ \E a \in Accounts : token[a] > InitialTokens[a]
    /\ block_number = MaxSteps * StepLen

\* ------------------------------------------------------------------------
\* A stake entry that is not fully unlocked: its unlockable value is below
\* its amount.
NotFullyUnlocked(e) == Unlockable(e) # e.amount

\* The withdrawn vector claim_all leaves for the entries st: each entry's
\* unlockable value.
AllUnlockable(st) == [k \in 1..Len(st) |-> Unlockable(st[k])]

\* An accepted step of claim_all: the caller's pairs afterwards are the
\* pairs that were not fully unlocked, in their order, none skipped, each
\* with withdrawn_amount equal to its unlockable value; no pair at unlock
\* level 10 is left.
ClaimAllVisitsAllStep ==
    LET c == last'.caller
    IN  (last'.op = "claim_all" /\ last'.outcome = "ok")
        => /\ staked'[c] = SelectSeq(staked[c], NotFullyUnlocked)
           /\ unstaked'[c] = AllUnlockable(staked'[c])
           /\ \A k \in 1..Len(staked'[c]) :
                  get_unstakable(staked'[c][k].timestamp) < 10

\* C16: after an accepted claim_all every pair of the caller has been
\* visited exactly once: each pair that was fully unlocked (level 10) is
\* gone, each remaining pair has withdrawn_amount equal to
\* floor(unlock_level * amount / 10), and the removal in place never skips
\* the pair that shifts into the freed index.
C16_ClaimAllVisitsAll == [][ClaimAllVisitsAllStep]_vars

\* C16 witness: claim_all ran over two pairs of the only staker (the balance
\* it read exceeds the 10 a single pair contributes) and removed both; the
\* contract holds more than the balance it took in, so the pairs held
\* positive deposits and were at unlock level 10.
C16_Witness ==
    /\ last.op = "claim_all" /\ last.outcome = "ok"
    /\ last.ret > 10
    /\ DOMAIN staked = {last.caller}
    /\ Len(staked[last.caller]) = 0
    /\ token[Me] > last.ret
    /\ get_unstakable(0) = 10

\* ------------------------------------------------------------------------
\* The pairs (st2, un2) are what a walk from the oldest pair leaves of
\* (st1, un1).  f places each pair left in the ledger at the index it had
\* before; a pair not in the range of f was removed.  A pair is debited when
\* it was removed or its withdrawn_amount rose, and is partially consumed
\* when its withdrawn_amount rose and stayed below its unlockable value.
\* Before every debited pair each pair left is fully consumed, and after a
\* partially consumed pair no pair is debited.
DebitedOldestFirst(st1, un1, st2, un2) ==
    /\ Len(st2) = Len(un2)
    /\ \E f \in [1..Len(st2) -> 1..Len(st1)] :
           LET kept == 1..Len(st2)
               removed == {j \in 1..Len(st1) : \A k \in kept : f[k] # j}
               rose(k) == un2[k] > un1[f[k]]
               full(k) == un2[k] = Unlockable(st2[k])
               debited == removed \cup {f[k] : k \in {x \in kept : rose(x)}}
               partial == {k \in kept : rose(k) /\ ~full(k)}
           IN  /\ \A j, k \in kept : j < k => f[j] < f[k]
               /\ \A k \in kept : st2[k] = st1[f[k]] /\ un2[k] >= un1[f[k]]
               /\ \A j \in debited :
                      \A k \in kept : f[k] < j => full(k)
               /\ \A k \in partial :
                      \A j \in debited : j <= f[k]
               /\ Cardinality(partial) <= 1

\* C17: claim debits the caller's pairs strictly oldest first: a pair's
\* withdrawn_amount is increased only if every earlier pair has been removed
\* or fully consumed by the end of the call, and at most one pair is
\* partially consumed, the last one touched.
C17_ClaimOldestFirst ==
    [][(last'.op = "claim" /\ last'.outcome = "ok")
           => DebitedOldestFirst(staked[last'.caller], unstaked[last'.caller],
                                 staked'[last'.caller], unstaked'[last'.caller])]_vars

\* C17 witness: one claim has consumed what was left of the caller's first
\* pair, which stays in the ledger fully consumed, and has taken the rest of
\* the amount asked for from the second pair, which is partially consumed.
C17_Witness ==
    /\ last.op = "claim" /\ last.outcome = "ok"
    /\ Len(staked[last.caller]) = 2
    /\ unstaked[last.caller][1] = Unlockable(staked[last.caller][1])
    /\ unstaked[last.caller][1] > last.arg
    /\ unstaked[last.caller][2] > 0
    /\ unstaked[last.caller][2] < last.arg
    /\ unstaked[last.caller][2] < Unlockable(staked[last.caller][2])
    /\ unstaked[last.caller][1] + unstaked[last.caller][2] = 2 * last.arg

\* ------------------------------------------------------------------------
\* A step that is one iteration of a running loop: it advances the index,
\* or removes one pair and lowers the tracked length by one, or (in claim)
\* sets the amount left to 0; the tracked length stays the length of the
\* vectors, and the loop has run at most once per pair the caller held when
\* the message began.
LoopIterationStep ==
    (loop.op # "idle" /\ loop'.op = loop.op) =>
        /\ \/ /\ loop'.i = loop.i + 1
              /\ loop'.length = loop.length
              /\ Len(loop'.st) = Len(loop.st)
           \/ /\ loop'.i = loop.i
              /\ loop'.length = loop.length - 1
              /\ Len(loop'.st) = Len(loop.st) - 1
           \/ /\ loop.op = "claim"
              /\ loop'.i = loop.i
              /\ loop'.length = loop.length
              /\ loop'.amount = 0
        /\ loop'.length = Len(loop'.st)
        /\ loop'.length = Len(loop'.un)
        /\ loop'.i <= loop'.length
        /\ loop'.iterations <= Len(staked[loop.caller])

\* A step in which the loop of claim breaks: nothing is left of the amount
\* or the index has reached the length of the ledger.
ClaimLoopExitStep ==
    (loop.op = "claim" /\ loop'.op = "idle" /\ last'.outcome = "ok") =>
        \/ loop.amount = 0
        \/ loop.i = loop.length /\ loop.length = Len(loop.st)

\* C18: the loops of claim and claim_all terminate on every ledger: each
\* iteration advances the index, removes one pair (shrinking the tracked
\* length) or sets the remaining amount to 0, also when a pair's unlocked
\* remainder is 0 or a stake entry has amount 0, so a loop runs at most
\* once per pair; on exit of claim either nothing remains or the index has
\* reached the ledger length.
C18_LoopsTerminate == [][LoopIterationStep /\ ClaimLoopExitStep]_vars

\* C18 witness: the loop of a claim has run twice over two pairs: it removed
\* the first pair, a stake entry of amount 0, took the amount asked for from
\* the second pair, and is about to break with nothing left.
C18_Witness ==
    /\ loop.op = "claim"
    /\ loop.iterations = 2
    /\ Len(staked[loop.caller]) = 2
    /\ staked[loop.caller][1].amount = 0
    /\ loop.length = 1
    /\ loop.i = 0
    /\ loop.amount = 0
    /\ loop.un[1] = loop.arg

\* ------------------------------------------------------------------------
RECURSIVE SumAmounts(_, _)
SumAmounts(st, n) == IF n = 0 THEN 0 ELSE st[n].amount + SumAmounts(st, n - 1)

\* What the pairs (st, un) still hold: the deposits of the pairs less
\* what has been withdrawn from them.  A removed pair held nothing, so a
\* message lowers this by exactly what it adds to withdrawn amounts.
Outstanding(st, un) == SumAmounts(st, Len(st)) - SumSeq(un, Len(un))

\* An accepted step of claim whose transfer succeeds (the contract holds the
\* amount asked for) pays the caller what the walk added to the caller's
\* withdrawn amounts.
ClaimPaysWhatItDebitsStep ==
    LET c == last'.caller
    IN  (last'.op = "claim" /\ last'.outcome = "ok" /\ token[Me] >= last'.arg)
        => token'[c] - token[c]
               = Outstanding(staked[c], unstaked[c])
                     - Outstanding(staked'[c], unstaked'[c])

\* No account holds more tokens than it began with: what the contract paid
\* it does not exceed what it deposited.
NoNetPayout == \A a \in Accounts : token[a] <= InitialTokens[a]

\* C19: with all external transfers succeeding, the tokens the contract has
\* paid out to an account never exceed what the account has deposited, and
\* in every accepted claim the tokens transferred equal the total increase
\* of withdrawn_amount made by the call (the walk never ends with an amount
\* left over).
C19_PayoutsCovered == [][ClaimPaysWhatItDebitsStep /\ NoNetPayout']_vars

\* ------------------------------------------------------------------------
\* C20: for every account that holds at least one pair, the unsigned
\* subtraction timestamp * amount / 10 - withdrawn_amount that get_balance
\* evaluates per pair never underflows, so get_balance, and with it the
\* preconditions of claim and claim_all, never aborts for such an account.
C20_BalanceNeverUnderflows ==
    \A a \in DOMAIN staked \cap DOMAIN unstaked :
        (Len(staked[a]) > 0 /\ Len(unstaked[a]) = Len(staked[a])) =>
            /\ \A i \in 0..(Len(staked[a]) - 1) :
                   ~Underflows(BalanceStartOperands(a, i).lhs,
                               BalanceStartOperands(a, i).rhs)
            /\ get_balance(a) # Trap
====
